---- MODULE Spec2Model ----
(***************************************************************************)
(* Model of the VentureCapital dashboard: the scalar cleaners, the dataset *)
(* loaders, the sector aggregation, the success model (training and        *)
(* inference) of utils.py and the startup / tab control flow of app.py.    *)
(*                                                                         *)
(* Strings are sequences of one-character strings, so that strip, replace, *)
(* lower and float() are computed character by character.  A float is a    *)
(* record [k, s, d, e]: k = "num" stands for s * d * 10^e (sign s, decimal  *)
(* digits d), k = "inf" for s * infinity, k = "nan" for NaN.               *)
(***************************************************************************)
EXTENDS Integers, Sequences, FiniteSets, TLC

VARIABLES
    cl_in, cl_fn, cl_out,       \* scalar cleaners: argument, function applied, outcome
    ld_file, ld_out,            \* load_data: the investments file, the call's outcome
    sm_df, sm_out,              \* get_sector_metrics: the table passed, the call's outcome
    tr_file, tr_out,            \* train_success_model: the training file, the call's outcome
    pr_last, pr_probe,          \* predict_success: the latest call, an earlier call kept
    lo_files, lo_out,           \* optional loaders: the files, each loader's outcome
    app_pc, app_run             \* app.py: position in the script, steps of the current run

clean_vars == <<cl_in, cl_fn, cl_out>>

load_vars == <<ld_file, ld_out>>

metrics_vars == <<sm_df, sm_out>>

ml_vars == <<tr_file, tr_out, pr_last, pr_probe>>

loader_vars == <<lo_files, lo_out>>

app_vars == <<app_pc, app_run>>

vars == <<cl_in, cl_fn, cl_out, ld_file, ld_out, sm_df, sm_out,
          tr_file, tr_out, pr_last, pr_probe, lo_files, lo_out, app_pc, app_run>>

(***************************************************************************)
(* Bounds                                                                  *)
(***************************************************************************)
\* longest cleaner argument, counted in pieces of Pieces
MaxPieces == 3

\* most rows of an investments file
MaxRows == 2

\* most rows of a table that agree in market, in having a name and in status
MaxSameRows == 4

\* most rows of a training file
MaxTrainRows == 2

\* the fitted forests told apart are numbered 0..MaxFit
MaxFit == 1

\* most rows of a unicorn, legacy, SaaS or investor file
MaxOptionalRows == 1

\* most rows of an investments file whose funding column is looked at
MaxFundingRows == 2

(***************************************************************************)
(* Strings                                                                 *)
(***************************************************************************)
Range(s) == {s[i] : i \in 1..Len(s)}

Whitespace == {" "}

DigitChars == {"0", "1", "2", "3", "4", "5", "6", "7", "8", "9"}

\* str.lower() on the letters the model's strings are made of
LowerChar(c) ==
    CASE c = "A" -> "a" [] c = "B" -> "b" [] c = "C" -> "c" [] c = "D" -> "d"
      [] c = "E" -> "e" [] c = "F" -> "f" [] c = "I" -> "i" [] c = "K" -> "k"
      [] c = "M" -> "m" [] c = "N" -> "n" [] c = "O" -> "o" [] c = "P" -> "p"
      [] c = "Q" -> "q" [] c = "R" -> "r" [] c = "T" -> "t" [] c = "U" -> "u"
      [] c = "Y" -> "y"
      [] OTHER -> c

Lower(s) == [i \in 1..Len(s) |-> LowerChar(s[i])]

RECURSIVE LStrip(_)
LStrip(s) ==
    IF s # <<>> /\ Head(s) \in Whitespace THEN LStrip(Tail(s)) ELSE s

RECURSIVE RStrip(_)
RStrip(s) ==
    IF s # <<>> /\ s[Len(s)] \in Whitespace
    THEN RStrip(SubSeq(s, 1, Len(s) - 1))
    ELSE s

\* str.strip()
Strip(s) == RStrip(LStrip(s))

\* str.replace(c, ''): every occurrence of the character c is removed
RemoveAll(s, c) == SelectSeq(s, LAMBDA x : x # c)

RECURSIVE Concat(_)
Concat(ss) == IF ss = <<>> THEN <<>> ELSE Head(ss) \o Concat(Tail(ss))

\* examples of abbreviated currency
Str100B == <<"$", "1", "0", "0", "B">>

Str50M == <<"$", "5", "0", "M">>

Str180000 == <<"$", "1", "8", "0", ",", "0", "0", "0">>

(***************************************************************************)
(* Floats                                                                  *)
(***************************************************************************)
RECURSIVE DropLeadingZeros(_)
DropLeadingZeros(d) ==
    IF d # <<>> /\ Head(d) = "0" THEN DropLeadingZeros(Tail(d)) ELSE d

\* the float of sign s (1 or -1), decimal digits d and decimal exponent e, in
\* canonical form, so that equal numbers are equal records (-0.0 = 0.0)
RECURSIVE Num(_, _, _)
Num(s, d, e) ==
    LET dd == DropLeadingZeros(d)
    IN  IF dd = <<>> THEN [k |-> "num", s |-> 1, d |-> <<>>, e |-> 0]
        ELSE IF dd[Len(dd)] = "0" THEN Num(s, SubSeq(dd, 1, Len(dd) - 1), e + 1)
        ELSE [k |-> "num", s |-> s, d |-> dd, e |-> e]

Zero == Num(1, <<>>, 0)

Inf(sign) == [k |-> "inf", s |-> sign, d |-> <<>>, e |-> 0]

NaN == [k |-> "nan", s |-> 1, d |-> <<>>, e |-> 0]

\* x * 10^p for a power-of-ten multiplier (1.0, 1e3, 1e6, 1e9, 1e12)
MulPow10(x, p) ==
    IF x.k = "num" THEN Num(x.s, x.d, x.e + p) ELSE x

\* digits with at most one point and at least one digit: "12", "1.", ".5", "1.5"
IsDecimal(b) ==
    /\ Range(b) \subseteq DigitChars \cup {"."}
    /\ Cardinality({i \in 1..Len(b) : b[i] = "."}) <= 1
    /\ \E i \in 1..Len(b) : b[i] \in DigitChars

FracLen(b) ==
    IF "." \in Range(b)
    THEN Len(b) - (CHOOSE i \in 1..Len(b) : b[i] = ".")
    ELSE 0

\* Python float(str): surrounding whitespace and one sign are allowed, then
\* inf / infinity / nan in any case, or a decimal literal; anything else is
\* a ValueError.
float(s) ==
    LET t    == Strip(s)
        neg  == t # <<>> /\ Head(t) = "-"
        body == IF t # <<>> /\ Head(t) \in {"-", "+"} THEN Tail(t) ELSE t
        sign == IF neg THEN 0 - 1 ELSE 1
        low  == Lower(body)
    IN  IF low \in {<<"i", "n", "f">>, <<"i", "n", "f", "i", "n", "i", "t", "y">>}
        THEN [exc |-> "none", v |-> Inf(sign)]
        ELSE IF low = <<"n", "a", "n">>
        THEN [exc |-> "none", v |-> NaN]
        ELSE IF IsDecimal(body)
        THEN [exc |-> "none",
              v |-> Num(sign, RemoveAll(body, "."), 0 - FracLen(body))]
        ELSE [exc |-> "ValueError", v |-> NaN]

(***************************************************************************)
(* Outcomes of a call                                                      *)
(***************************************************************************)
Return(v) == [kind |-> "return", v |-> v, exc |-> "none"]

Raise(e) == [kind |-> "raise", v |-> NaN, exc |-> e]

NoCall == [kind |-> "none", v |-> NaN, exc |-> "none"]

(***************************************************************************)
(* Scalar cleaners (string arguments)                                      *)
(***************************************************************************)
clean_currency(x) ==
    LET clean_str == RemoveAll(Strip(x), ",")
        r         == float(clean_str)
    IN  IF clean_str = <<"-">> \/ clean_str = <<>> THEN Return(Zero)
        ELSE IF r.exc = "none" THEN Return(r.v)
        ELSE IF r.exc = "ValueError" THEN Return(Zero)
        ELSE Raise(r.exc)

\* The variant a plausible slip produces: the thousands separators stay in.
clean_money_string_keeps_commas(x) ==
    LET s0 == RemoveAll(Strip(x), "$")
        u  == IF "B" \in Range(s0) THEN "B"
              ELSE IF "M" \in Range(s0) THEN "M"
              ELSE IF "K" \in Range(s0) THEN "K"
              ELSE IF "T" \in Range(s0) THEN "T"
              ELSE "none"
        p  == CASE u = "B" -> 9 [] u = "M" -> 6 [] u = "K" -> 3 [] u = "T" -> 12
                [] OTHER -> 0
        r  == float(IF u = "none" THEN s0 ELSE RemoveAll(s0, u))
    IN  IF r.exc = "none" THEN Return(MulPow10(r.v, p))
        ELSE IF r.exc = "ValueError" THEN Return(Zero)
        ELSE Raise(r.exc)

clean_money_string(x) ==
    LET s0 == RemoveAll(RemoveAll(Strip(x), "$"), ",")
        ms == IF "B" \in Range(s0) THEN [multiplier |-> 9, s |-> RemoveAll(s0, "B")]
              ELSE IF "M" \in Range(s0) THEN [multiplier |-> 6, s |-> RemoveAll(s0, "M")]
              ELSE IF "K" \in Range(s0) THEN [multiplier |-> 3, s |-> RemoveAll(s0, "K")]
              ELSE IF "T" \in Range(s0) THEN [multiplier |-> 12, s |-> RemoveAll(s0, "T")]
              ELSE [multiplier |-> 0, s |-> s0]
        r  == float(ms.s)
    IN  IF r.exc = "none" THEN Return(MulPow10(r.v, ms.multiplier))
        ELSE IF r.exc = "ValueError" THEN Return(Zero)
        ELSE Raise(r.exc)

(***************************************************************************)
(* load_data: the primary investments file                                 *)
(***************************************************************************)
\* an empty CSV cell is read as a missing value
MissingCell == <<>>

\* astype(str): a missing value becomes the text "nan"
AsStr(c) == IF c = MissingCell THEN <<"n", "a", "n">> ELSE c

NaT == [nat |-> TRUE, ord |-> 0]

Timestamp(n) == [nat |-> FALSE, ord |-> n]

RECURSIVE DigitsValue(_)
DigitsValue(s) ==
    IF s = <<>> THEN 0
    ELSE 10 * DigitsValue(SubSeq(s, 1, Len(s) - 1))
         + (CHOOSE v \in 0..9 : s[Len(s)] = <<"0", "1", "2", "3", "4", "5", "6", "7", "8", "9">>[v + 1])

IsLeap(y) == y % 4 = 0 /\ (y % 100 # 0 \/ y % 400 = 0)

DaysInMonth(y, m) ==
    IF m = 2 THEN (IF IsLeap(y) THEN 29 ELSE 28)
    ELSE IF m \in {4, 6, 9, 11} THEN 30 ELSE 31

RECURSIVE DaysBeforeMonth(_, _)
DaysBeforeMonth(y, m) ==
    IF m = 1 THEN 0 ELSE DaysBeforeMonth(y, m - 1) + DaysInMonth(y, m - 1)

\* the day number of y-m-d in the proleptic Gregorian calendar
Ordinal(y, m, d) ==
    LET p == y - 1
    IN  365 * p + (p \div 4) - (p \div 100) + (p \div 400) + DaysBeforeMonth(y, m) + d

\* pd.to_datetime(errors='coerce') on a cell: a YYYY-MM-DD text naming a day
\* of the calendar is that day; a missing cell and any other text are NaT
to_datetime(c) ==
    IF /\ Len(c) = 10
       /\ c[5] = "-" /\ c[8] = "-"
       /\ \A i \in {1, 2, 3, 4, 6, 7, 9, 10} : c[i] \in DigitChars
    THEN LET y == DigitsValue(SubSeq(c, 1, 4))
             m == DigitsValue(SubSeq(c, 6, 7))
             d == DigitsValue(SubSeq(c, 9, 10))
         IN  IF y >= 1 /\ m \in 1..12 /\ d >= 1 /\ d <= DaysInMonth(y, m)
             THEN Timestamp(Ordinal(y, m, d))
             ELSE NaT
    ELSE NaT

ExitStatuses == {<<"a", "c", "q", "u", "i", "r", "e", "d">>, <<"i", "p", "o">>}

\* years_to_exit is days / 365.0, kept as the number of days; nan is np.nan
YearsNaN == [nan |-> TRUE, days |-> 0]

Years(days) == [nan |-> FALSE, days |-> days]

\* The variant a plausible slip produces: the half-year floor is left out.
years_to_exit_no_floor(row) ==
    IF row.status \in ExitStatuses
    THEN IF ~row.last_funding_at.nat /\ ~row.founded_at.nat
         THEN Years(row.last_funding_at.ord - row.founded_at.ord)
         ELSE YearsNaN
    ELSE YearsNaN

\* step 7 of load_data for one row (status and dates already normalised):
\* the row is in `exits` when its status is an exit; there the mask of two
\* known dates gets (last - founded).days / 365.0, values < 0.5 go back to
\* NaN, and the value is written back at the row's own index
years_to_exit(row) ==
    IF row.status \in ExitStatuses
    THEN LET mask  == ~row.last_funding_at.nat /\ ~row.founded_at.nat
             value == IF mask
                      THEN Years(row.last_funding_at.ord - row.founded_at.ord)
                      ELSE YearsNaN
         IN  IF ~value.nan /\ 2 * value.days < 365 THEN YearsNaN ELSE value
    ELSE YearsNaN

\* read_csv gives a column the object dtype when a cell of it is no number
IsObjectColumn(cells) ==
    \E i \in 1..Len(cells) : cells[i] # MissingCell /\ float(cells[i]).exc # "none"

\* step 2 of load_data, and the same step of train_success_model: the
\* funding column after the cleaning
FundingValue(cells, i) ==
    IF IsObjectColumn(cells) THEN clean_currency(AsStr(cells[i])).v
    ELSE IF cells[i] = MissingCell THEN NaN
    ELSE float(cells[i]).v

\* the funding_total_usd of row i of the table load_data returns; a file
\* without the column has no such field, written NaN
LoadedFunding(file, i) ==
    IF "funding_total_usd" \in file.cols
    THEN FundingValue([j \in 1..Len(file.rows) |-> file.rows[j].funding_total_usd], i)
    ELSE NaN

LoadColumns == {"status", "founded_at", "last_funding_at"}

\* steps 3 and 5 of load_data on one row of the file
NormaliseRow(cols, r) ==
    [ status          |-> IF "status" \in cols THEN Lower(Strip(AsStr(r.status)))
                          ELSE r.status,
      founded_at      |-> IF "founded_at" \in cols THEN to_datetime(r.founded_at)
                          ELSE NaT,
      last_funding_at |-> IF "last_funding_at" \in cols THEN to_datetime(r.last_funding_at)
                          ELSE NaT ]

\* The variant a plausible slip produces: like the optional loaders, an
\* unreadable file gives an empty table.
load_data_returns_empty(file) ==
    IF ~file.readable THEN [kind |-> "return", exc |-> "none", rows |-> <<>>]
    ELSE IF ~({"status", "last_funding_at", "founded_at"} \subseteq file.cols)
    THEN [kind |-> "raise", exc |-> "KeyError", rows |-> <<>>]
    ELSE [kind |-> "return", exc |-> "none",
          rows |-> [i \in 1..Len(file.rows) |->
                      LET row == NormaliseRow(file.cols, file.rows[i])
                      IN  [ status            |-> row.status,
                            funding_total_usd |-> LoadedFunding(file, i),
                            founded_at        |-> row.founded_at,
                            last_funding_at   |-> row.last_funding_at,
                            years_to_exit     |-> years_to_exit(row) ]]]

\* load_data(filepath): read_csv raises when the file cannot be read; the
\* lookups df['status'], exits['last_funding_at'] and exits['founded_at'] of
\* step 7 raise KeyError when the column is not in the file
load_data(file) ==
    IF ~file.readable THEN [kind |-> "raise", exc |-> "FileNotFoundError", rows |-> <<>>]
    ELSE IF "status" \notin file.cols
    THEN [kind |-> "raise", exc |-> "KeyError", rows |-> <<>>]
    ELSE IF ~({"last_funding_at", "founded_at"} \subseteq file.cols)
    THEN [kind |-> "raise", exc |-> "KeyError", rows |-> <<>>]
    ELSE [kind |-> "return", exc |-> "none",
          rows |-> [i \in 1..Len(file.rows) |->
                      LET row == NormaliseRow(file.cols, file.rows[i])
                      IN  [ status            |-> row.status,
                            funding_total_usd |-> LoadedFunding(file, i),
                            founded_at        |-> row.founded_at,
                            last_funding_at   |-> row.last_funding_at,
                            years_to_exit     |-> years_to_exit(row) ]]]

NotLoaded == [kind |-> "none", exc |-> "none", rows |-> <<>>]

RawStatuses ==
    { <<"a", "c", "q", "u", "i", "r", "e", "d">>, <<"I", "P", "O", " ">>,
      <<"o", "p", "e", "r", "a", "t", "i", "n", "g">>, MissingCell }

D20100101 == <<"2", "0", "1", "0", "-", "0", "1", "-", "0", "1">>

D20100401 == <<"2", "0", "1", "0", "-", "0", "4", "-", "0", "1">>

D20100702 == <<"2", "0", "1", "0", "-", "0", "7", "-", "0", "2">>

D20100703 == <<"2", "0", "1", "0", "-", "0", "7", "-", "0", "3">>

D20120101 == <<"2", "0", "1", "2", "-", "0", "1", "-", "0", "1">>

D20090601 == <<"2", "0", "0", "9", "-", "0", "6", "-", "0", "1">>

D20100230 == <<"2", "0", "1", "0", "-", "0", "2", "-", "3", "0">>

RawFounded == {D20100101, <<"n", "/", "a">>, MissingCell}

RawLastFunding == {D20100401, D20100702, D20100703, D20120101, D20090601, D20100230}

RawRows ==
    [ status : RawStatuses, founded_at : RawFounded, last_funding_at : RawLastFunding,
      funding_total_usd : {MissingCell} ]

\* a file that lacks a column has the missing value in it on every row
WithoutColumn(r, c) ==
    [ status          |-> IF c = "status" THEN MissingCell ELSE r.status,
      founded_at      |-> IF c = "founded_at" THEN MissingCell ELSE r.founded_at,
      last_funding_at |-> IF c = "last_funding_at" THEN MissingCell ELSE r.last_funding_at,
      funding_total_usd |-> r.funding_total_usd ]

InvestmentFiles ==
    {[readable |-> FALSE, cols |-> {}, rows |-> <<>>]}
    \cup { [readable |-> TRUE, cols |-> LoadColumns, rows |-> rs] :
             rs \in UNION { [1..n -> RawRows] : n \in 0..MaxRows } }
    \cup { [readable |-> TRUE, cols |-> LoadColumns \ {c}, rows |-> <<WithoutColumn(r, c)>>] :
             r \in RawRows, c \in LoadColumns }

\* the arguments the cleaners are applied to
Pieces ==
    { <<"1">>, <<"5", "0">>, <<"1", "0", "0">>,
      <<"1", "8", "0", ",", "0", "0", "0">>,
      <<".">>, <<",">>, <<"$">>, <<"-">>, <<" ">>,
      <<"B">>, <<"M">>, <<"K">>, <<"T">>,
      <<"n", "a", "n">>, <<"I", "N", "F", "I", "N", "I", "T", "Y">>, <<"x">> }

CleanerInputs ==
    { Concat(ps) : ps \in UNION { [1..n -> Pieces] : n \in 0..MaxPieces } }

(***************************************************************************)
(* get_sector_metrics                                                      *)
(*                                                                         *)
(* The aggregation does not depend on the order of the rows, so a table is *)
(* the number of its rows of each kind: market, name present or missing,   *)
(* status.  The columns total_funding_usd, avg_years_to_exit and           *)
(* avg_deal_size and the final ordering by total funding read other        *)
(* columns; they decide neither which sectors are kept nor the two counts, *)
(* and are left out.                                                       *)
(***************************************************************************)
Markets == {"Software", "Biotech"}

MetricStatuses == {"acquired", "operating"}

RowKinds == [market : Markets, has_name : BOOLEAN, status : MetricStatuses]

RECURSIVE SumOver(_, _)
SumOver(df, kinds) ==
    IF kinds = {} THEN 0
    ELSE LET k == CHOOSE x \in kinds : TRUE
         IN  df[k] + SumOver(df, kinds \ {k})

\* groupby('market'): the groups are the markets that have a row
Groups(df) == {m \in Markets : \E k \in RowKinds : k.market = m /\ df[k] > 0}

\* ('name', 'count'): the rows of the group whose name is not missing
deal_count(df, m) == SumOver(df, {k \in RowKinds : k.market = m /\ k.has_name})

\* ('status', lambda x: x.isin(['acquired', 'ipo']).sum()): the rows of the
\* group whose status is an exit
exit_count(df, m) ==
    SumOver(df, {k \in RowKinds : k.market = m /\ k.status \in {"acquired", "ipo"}})

\* the fraction num / den
Ratio(n, d) == [num |-> n, den |-> d]

get_sector_metrics(df) ==
    LET kept == {m \in Groups(df) : deal_count(df, m) > 5}
    IN  [m \in kept |->
            [ deal_count   |-> deal_count(df, m),
              exit_count   |-> exit_count(df, m),
              success_rate |-> Ratio(exit_count(df, m) * 100, deal_count(df, m)) ]]

(***************************************************************************)
(* The success model: train_success_model and predict_success              *)
(***************************************************************************)
S_acquired == <<"a", "c", "q", "u", "i", "r", "e", "d">>

S_ipo == <<"i", "p", "o">>

S_operating == <<"o", "p", "e", "r", "a", "t", "i", "n", "g">>

S_closed == <<"c", "l", "o", "s", "e", "d">>

S_pending == <<"p", "e", "n", "d", "i", "n", "g">>

S_Other == <<"O", "t", "h", "e", "r">>

S_CAN == <<"C", "A", "N">>

S_USA == <<"U", "S", "A">>

S_Bio == <<"B", "i", "o">>

S_Soft == <<"S", "o", "f", "t">>

S_BioMed == <<"B", "i", "o", "|", "M", "e", "d">>

\* the characters in code point order
Ascii ==
    << " ", "$", ",", "-", ".", "/",
       "0", "1", "2", "3", "4", "5", "6", "7", "8", "9",
       "A", "B", "C", "D", "E", "F", "G", "H", "I", "J", "K", "L", "M",
       "N", "O", "P", "Q", "R", "S", "T", "U", "V", "W", "X", "Y", "Z",
       "a", "b", "c", "d", "e", "f", "g", "h", "i", "j", "k", "l", "m",
       "n", "o", "p", "q", "r", "s", "t", "u", "v", "w", "x", "y", "z", "|" >>

CodePoint(c) == CHOOSE i \in 1..Len(Ascii) : Ascii[i] = c

\* a < b as Python compares strings
RECURSIVE LexLess(_, _)
LexLess(a, b) ==
    IF b = <<>> THEN FALSE
    ELSE IF a = <<>> THEN TRUE
    ELSE IF Head(a) = Head(b) THEN LexLess(Tail(a), Tail(b))
    ELSE CodePoint(Head(a)) < CodePoint(Head(b))

\* np.unique: the distinct values in ascending order
RECURSIVE Sorted(_)
Sorted(S) ==
    IF S = {} THEN <<>>
    ELSE LET m == CHOOSE x \in S : \A y \in S \ {x} : LexLess(x, y)
         IN  <<m>> \o Sorted(S \ {m})

\* x.split('|')[0]
FirstToken(s) ==
    IF "|" \in Range(s)
    THEN SubSeq(s, 1, (CHOOSE i \in 1..Len(s) :
                          s[i] = "|" /\ \A j \in 1..(i - 1) : s[j] # "|") - 1)
    ELSE s

\* RandomForestClassifier(n_estimators=50, ...)
n_estimators == 50

\* value_counts().nlargest(50)
TopCategories == 50

ValidStatuses == {S_operating, S_acquired, S_closed, S_ipo}

FeatureColumns == {"funding_total_usd", "funding_rounds", "country_code"}

\* pd.to_numeric(errors='coerce').fillna(1)
RoundsValue(c) ==
    IF c = MissingCell \/ float(c).exc # "none" \/ float(c).v.k = "nan"
    THEN Num(1, <<"1">>, 0)
    ELSE float(c).v

\* df['category_list'].astype(str).apply(lambda x: x.split('|')[0] if
\* isinstance(x, str) else 'Other') on one cell: after astype(str) every x is
\* a str
primary_category(c) == FirstToken(AsStr(c))

\* the rows of df after the status filter
StatusRows(rows) == SelectSeq(rows, LAMBDA r : r.status \in ValidStatuses)

\* the rows of df_clean: status filter, label, engineered features, dropna
CleanRows(rows) ==
    LET kept  == SelectSeq([i \in 1..Len(rows) |-> [i |-> i, r |-> rows[i]]],
                           LAMBDA x : x.r.status \in ValidStatuses)
        cells == [j \in 1..Len(kept) |-> kept[j].r.funding_total_usd]
        feat  == [j \in 1..Len(kept) |->
                    [ is_success        |-> IF kept[j].r.status \in {S_acquired, S_ipo}
                                            THEN 1 ELSE 0,
                      funding_total_usd |-> FundingValue(cells, j),
                      funding_rounds    |-> RoundsValue(kept[j].r.funding_rounds),
                      country_code      |-> kept[j].r.country_code,
                      primary_category  |-> primary_category(kept[j].r.category_list) ]]
    IN  SelectSeq(feat, LAMBDA f : f.funding_total_usd.k # "nan"
                                   /\ f.country_code # MissingCell)

\* how many rows carry the category c, and where it first occurs
CategoryCount(rows, c) == Cardinality({i \in 1..Len(rows) : rows[i].primary_category = c})

FirstRowOf(rows, c) == CHOOSE i \in 1..Len(rows) :
    rows[i].primary_category = c /\ \A j \in 1..(i - 1) : rows[j].primary_category # c

\* value_counts().nlargest(50).index: a category is in when fewer than 50
\* others come before it (more rows, or as many and seen earlier)
TopCats(rows) ==
    LET cats == {rows[i].primary_category : i \in 1..Len(rows)}
        Before(a, b) ==
            \/ CategoryCount(rows, a) > CategoryCount(rows, b)
            \/ /\ CategoryCount(rows, a) = CategoryCount(rows, b)
               /\ FirstRowOf(rows, a) < FirstRowOf(rows, b)
    IN  {c \in cats : Cardinality({a \in cats : Before(a, c)}) < TopCategories}

NoModel == [none |-> TRUE, classes |-> <<>>, fit |-> 0]

NoEncoders == [none |-> TRUE, country |-> <<>>, category |-> <<>>]

NotTrained ==
    [ kind |-> "none", exc |-> "none", model |-> NoModel, encoders |-> NoEncoders,
      primary |-> <<>> ]

TrainRaise(e) ==
    [ kind |-> "raise", exc |-> e, model |-> NoModel, encoders |-> NoEncoders,
      primary |-> <<>> ]

\* train_success_model(filepath).  `fit` stands for what model.fit makes of
\* the data: with random_state fixed the forest is a function of the data, of
\* which the model keeps a number and the classes seen in y.  `primary` is
\* the column df['primary_category'] the training worked with.
train_success_model(file, fit) ==
    IF ~file.readable
    THEN [ kind |-> "return", exc |-> "none", model |-> NoModel, encoders |-> NoEncoders,
           primary |-> <<>> ]
    ELSE IF "status" \notin file.cols THEN TrainRaise("KeyError")
    ELSE IF "category_list" \notin file.cols THEN TrainRaise("KeyError")
    ELSE IF ~(FeatureColumns \subseteq file.cols) THEN TrainRaise("KeyError")
    ELSE LET df_clean == CleanRows(file.rows)
             cats     == TopCats(df_clean)
             le_country  == Sorted({AsStr(df_clean[i].country_code) :
                                      i \in 1..Len(df_clean)})
             le_category == Sorted({IF df_clean[i].primary_category \in cats
                                    THEN df_clean[i].primary_category
                                    ELSE S_Other : i \in 1..Len(df_clean)})
             y        == {df_clean[i].is_success : i \in 1..Len(df_clean)}
         IN  IF df_clean = <<>> THEN TrainRaise("ValueError")
             ELSE IF \E i \in 1..Len(df_clean) : df_clean[i].funding_total_usd.k = "inf"
             THEN TrainRaise("ValueError")
             ELSE [kind |-> "return", exc |-> "none",
                   model |-> [none |-> FALSE,
                              classes |-> IF y = {0, 1} THEN <<0, 1>>
                                          ELSE IF y = {0} THEN <<0>> ELSE <<1>>,
                              fit |-> fit],
                   encoders |-> [none |-> FALSE,
                                 country |-> le_country,
                                 category |-> le_category],
                   primary |-> [j \in 1..Len(StatusRows(file.rows)) |->
                       primary_category(StatusRows(file.rows)[j].category_list)]]

\* LabelEncoder.transform([v])[0]: the position of v in classes_, from 0;
\* a ValueError when v is not in classes_
Seen(classes, v) == \E i \in 1..Len(classes) : classes[i] = v

Code(classes, v) == (CHOOSE i \in 1..Len(classes) : classes[i] = v) - 1

\* the trees' votes for the positive class: a fixed function of the fitted
\* forest and of the feature vector
Votes(model, x) ==
    (model.fit * 17 + x.c_enc * 7 + x.cat_enc * 3 + x.rounds
     + (IF x.funding > 0 THEN 11 ELSE 0)) % (n_estimators + 1)

\* model.predict_proba(X_input)[0]: one probability for each class of
\* model.classes_, in the order of the classes
predict_proba(model, x) ==
    IF model.classes = <<0, 1>>
    THEN <<Ratio(n_estimators - Votes(model, x), n_estimators),
           Ratio(Votes(model, x), n_estimators)>>
    ELSE <<Ratio(n_estimators, n_estimators)>>

NotPredicted ==
    [kind |-> "none", exc |-> "none", c_enc |-> 0, cat_enc |-> 0, p |-> Ratio(0, 1)]

\* predict_success(model, encoders, funding, rounds, country, category);
\* Python indexes the row of probabilities from 0, so [0][1] is its second
\* entry and an IndexError when the row has one entry
predict_success(model, encoders, funding, rounds, country, category) ==
    LET c_enc   == IF Seen(encoders.country, country)
                   THEN Code(encoders.country, country)
                   ELSE 0
        cat_enc == IF Seen(encoders.category, category)
                   THEN Code(encoders.category, category)
                   ELSE IF Seen(encoders.category, S_Other)
                   THEN Code(encoders.category, S_Other)
                   ELSE 0
        row     == predict_proba(model, [funding |-> funding, rounds |-> rounds,
                                         c_enc |-> c_enc, cat_enc |-> cat_enc])
    IN  IF Len(row) >= 2
        THEN [kind |-> "return", exc |-> "none",
              c_enc |-> c_enc, cat_enc |-> cat_enc, p |-> row[2]]
        ELSE [kind |-> "raise", exc |-> "IndexError",
              c_enc |-> c_enc, cat_enc |-> cat_enc, p |-> Ratio(0, 1)]

(***************************************************************************)
(* The optional loaders: load_unicorn_data, load_saas_data and             *)
(* load_investor_data                                                      *)
(*                                                                         *)
(* A file is [kind, cols, rows]: kind "missing" (no such file),            *)
(* "malformed" (read_csv cannot parse it), "utf8" or "latin1" (a CSV whose *)
(* bytes decode as UTF-8, or only as ISO-8859-1); cols the columns of its  *)
(* header.  A row has a cell for every column the model knows, the missing *)
(* value where the file has no such column.                                *)
(***************************************************************************)
\* pd.read_csv(filepath, encoding=enc): the exception it raises, or "none"
ReadCsv(file, enc) ==
    IF file.kind = "missing" THEN "FileNotFoundError"
    ELSE IF file.kind = "malformed" THEN "ParserError"
    ELSE IF file.kind = "latin1" /\ enc = "utf-8" THEN "UnicodeDecodeError"
    ELSE "none"

\* pd.DataFrame()
EmptyTable == [cols |-> {}, rows |-> <<>>]

TableReturn(tbl) == [kind |-> "return", exc |-> "none", table |-> tbl]

TableRaise(e) == [kind |-> "raise", exc |-> e, table |-> EmptyTable]

NoTable == [kind |-> "none", exc |-> "none", table |-> EmptyTable]

\* an integer column value, or NaN
IntNaN == [nan |-> TRUE, n |-> 0]

IntOf(n) == [nan |-> FALSE, n |-> n]

\* pd.to_numeric(errors='coerce') of a cell
to_numeric(c) ==
    IF c = MissingCell \/ float(c).exc # "none" THEN NaN ELSE float(c).v

\* .dt.year of a parsed date cell
YearOf(c) ==
    IF to_datetime(c).nat THEN IntNaN ELSE IntOf(DigitsValue(SubSeq(c, 1, 4)))

\* set_index('Company')['Year Founded'].to_dict(): the last row of a company wins
FoundedMap(rows, company) ==
    IF \E i \in 1..Len(rows) : rows[i].Company = company
    THEN LET i == CHOOSE i \in 1..Len(rows) :
                      /\ rows[i].Company = company
                      /\ \A j \in (i + 1)..Len(rows) : rows[j].Company # company
         IN  IF rows[i].YearFounded = MissingCell THEN IntNaN
             ELSE IntOf(DigitsValue(rows[i].YearFounded))
    ELSE IntNaN

\* load_unicorn_data(filepath), with the legacy file Unicorn_Companies2021.csv
load_unicorn_data(file, legacy) ==
    IF ReadCsv(file, "utf-8") # "none" THEN TableReturn(EmptyTable)
    ELSE
    LET df_2021  == IF ReadCsv(legacy, "utf-8") # "none" THEN EmptyTable
                    ELSE [cols |-> legacy.cols, rows |-> legacy.rows]
        has_val  == "Last Valuation (Billion $)" \in file.cols
        has_date == "Date Joined" \in file.cols
        \* not df_2021.empty and both columns in df_2021
        merge    == /\ df_2021.rows # <<>> /\ df_2021.cols # {}
                    /\ {"Company", "Year Founded"} \subseteq df_2021.cols
        year_joined(r)  == YearOf(r.DateJoined)
        year_founded(r) == FoundedMap(df_2021.rows, r.Company)
    IN  IF merge /\ "Company" \notin file.cols THEN TableRaise("KeyError")
        ELSE IF merge /\ ~has_date THEN TableRaise("KeyError")
        ELSE TableReturn(
          [ cols |-> file.cols
                     \cup (IF has_val THEN {"Valuation_USD"} ELSE {})
                     \cup (IF has_date THEN {"Year Joined"} ELSE {})
                     \cup (IF merge THEN {"Year Founded"} ELSE {})
                     \cup {"Years_to_Unicorn"}
                     \cup (IF "Investors" \in file.cols THEN {"Select Investors"} ELSE {}),
            rows |-> [i \in 1..Len(file.rows) |->
              LET r == file.rows[i]
              IN  [ Company          |-> r.Company,
                    DateJoined       |-> IF has_date THEN to_datetime(r.DateJoined) ELSE NaT,
                    Valuation_USD    |-> IF has_val
                                         THEN MulPow10(to_numeric(r.Valuation), 9)
                                         ELSE NaN,
                    YearJoined       |-> IF has_date THEN year_joined(r) ELSE IntNaN,
                    YearFounded      |-> IF merge THEN year_founded(r) ELSE IntNaN,
                    Years_to_Unicorn |->
                        IF merge /\ ~year_joined(r).nan /\ ~year_founded(r).nan
                        THEN IntOf(year_joined(r).n - year_founded(r).n)
                        ELSE IntNaN ]] ])

\* str.replace('.', '', 1): the first point is removed
RemoveFirstPoint(s) ==
    IF "." \in Range(s)
    THEN LET i == CHOOSE i \in 1..Len(s) : s[i] = "." /\ \A j \in 1..(i - 1) : s[j] # "."
         IN  SubSeq(s, 1, i - 1) \o SubSeq(s, i + 1, Len(s))
    ELSE s

\* str.isdigit()
IsDigit(s) == s # <<>> /\ Range(s) \subseteq DigitChars

\* the Employees column of load_saas_data
CleanEmployees(c) ==
    LET x == RemoveFirstPoint(RemoveAll(AsStr(c), ","))
    IN  IF IsDigit(x) THEN float(x).v ELSE Zero

\* clean_money_string on a cell: a missing value is no string and comes back
MoneyCell(c) == IF c = MissingCell THEN NaN ELSE clean_money_string(c).v

MoneyColumns == {"Total Funding", "ARR", "Valuation"}

load_saas_data(file) ==
    IF ReadCsv(file, "utf-8") # "none" THEN TableReturn(EmptyTable)
    ELSE TableReturn(
      [ cols |-> file.cols
                 \cup (IF "Total Funding" \in file.cols THEN {"Total Funding_USD"} ELSE {})
                 \cup (IF "ARR" \in file.cols THEN {"ARR_USD"} ELSE {})
                 \cup (IF "Valuation" \in file.cols THEN {"Valuation_USD"} ELSE {}),
        rows |-> [i \in 1..Len(file.rows) |->
          LET r == file.rows[i]
          IN  [ TotalFunding_USD |-> IF "Total Funding" \in file.cols
                                     THEN MoneyCell(r.TotalFunding) ELSE NaN,
                ARR_USD          |-> IF "ARR" \in file.cols THEN MoneyCell(r.ARR) ELSE NaN,
                Valuation_USD    |-> IF "Valuation" \in file.cols
                                     THEN MoneyCell(r.Valuation) ELSE NaN,
                Employees        |-> IF "Employees" \in file.cols
                                     THEN CleanEmployees(r.Employees) ELSE NaN ]] ])

load_investor_data(file) ==
    IF ReadCsv(file, "utf-8") = "none"
    THEN TableReturn([cols |-> file.cols, rows |-> file.rows])
    ELSE IF ReadCsv(file, "ISO-8859-1") = "none"
    THEN TableReturn([cols |-> file.cols, rows |-> file.rows])
    ELSE TableReturn(EmptyTable)

(***************************************************************************)
(* Specifications.  Each one exercises one part of the program; the        *)
(* variables of the other parts rest at their idle values.                 *)
(***************************************************************************)
CleanIdle ==
    /\ cl_in = <<>>
    /\ cl_fn = "idle"
    /\ cl_out = NoCall

LoadIdle ==
    /\ ld_file = [readable |-> FALSE, cols |-> {}, rows |-> <<>>]
    /\ ld_out = [kind |-> "idle", exc |-> "none", rows |-> <<>>]

MetricsIdle ==
    /\ sm_df = [k \in RowKinds |-> 0]
    /\ sm_out = [called |-> FALSE, metrics |-> <<>>]

NoFile == [kind |-> "missing", cols |-> {}, rows |-> <<>>]

NoFiles == [unicorn |-> NoFile, legacy |-> NoFile, saas |-> NoFile, investor |-> NoFile]

NoTables == [unicorn |-> NoTable, saas |-> NoTable, investor |-> NoTable]

LoadersIdle ==
    /\ lo_files = NoFiles
    /\ lo_out = NoTables

NoProbe == [args |-> <<>>, out |-> NotPredicted, other |-> FALSE]

ModelIdle ==
    /\ tr_file = [readable |-> FALSE, cols |-> {}, rows |-> <<>>]
    /\ tr_out = NotTrained
    /\ pr_last = [args |-> <<>>, out |-> NotPredicted]
    /\ pr_probe = NoProbe

AppIdle ==
    /\ app_pc = "idle"
    /\ app_run = {}

\* ---- the cleaners: one argument, each cleaner applied to it
InitClean ==
    /\ cl_in \in CleanerInputs
    /\ cl_fn = "none"
    /\ cl_out = NoCall
    /\ LoadIdle /\ MetricsIdle /\ ModelIdle /\ LoadersIdle /\ AppIdle

CallCleanCurrency ==
    /\ cl_fn = "none"
    /\ cl_fn' = "clean_currency"
    /\ cl_out' = clean_currency(cl_in)
    /\ UNCHANGED <<cl_in, load_vars, metrics_vars, ml_vars, loader_vars, app_vars>>

CallCleanMoneyString ==
    /\ cl_fn = "none"
    /\ cl_fn' = "clean_money_string"
    /\ cl_out' = clean_money_string(cl_in)
    /\ UNCHANGED <<cl_in, load_vars, metrics_vars, ml_vars, loader_vars, app_vars>>

NextClean == CallCleanCurrency \/ CallCleanMoneyString

SpecClean == InitClean /\ [][NextClean]_vars

\* ---- load_data: one investments file, loaded once
InitLoad ==
    /\ ld_file \in InvestmentFiles
    /\ ld_out = NotLoaded
    /\ CleanIdle /\ MetricsIdle /\ ModelIdle /\ LoadersIdle /\ AppIdle

CallLoadData ==
    /\ ld_out.kind = "none"
    /\ ld_out' = load_data(ld_file)
    /\ UNCHANGED <<ld_file, clean_vars, metrics_vars, ml_vars, loader_vars, app_vars>>

NextLoad == CallLoadData

SpecLoad == InitLoad /\ [][NextLoad]_vars

\* ---- load_data on files that differ in their funding_total_usd column
FundingCells ==
    { <<"1", ",", "0", "0", "0">>, <<"2", "5", "0">>, <<"2", "5", "0", ".", "5">>,
      <<" ", "-", " ">>, <<"-", "5">>, <<"u", "n", "k", "n", "o", "w", "n">>, MissingCell }

FundingRows ==
    [ status : {<<"a", "c", "q", "u", "i", "r", "e", "d">>}, founded_at : {D20100101},
      last_funding_at : {D20120101}, funding_total_usd : FundingCells ]

FundingFiles ==
    { [readable |-> TRUE, cols |-> LoadColumns \cup {"funding_total_usd"}, rows |-> rs] :
        rs \in UNION { [1..n -> FundingRows] : n \in 0..MaxFundingRows } }

InitFunding ==
    /\ ld_file \in FundingFiles
    /\ ld_out = NotLoaded
    /\ CleanIdle /\ MetricsIdle /\ ModelIdle /\ LoadersIdle /\ AppIdle

SpecFunding == InitFunding /\ [][NextLoad]_vars

\* ---- get_sector_metrics: one table, aggregated once
InitMetrics ==
    /\ sm_df \in [RowKinds -> 0..MaxSameRows]
    /\ sm_out = [called |-> FALSE, metrics |-> <<>>]
    /\ CleanIdle /\ LoadIdle /\ ModelIdle /\ LoadersIdle /\ AppIdle

CallGetSectorMetrics ==
    /\ ~sm_out.called
    /\ sm_out' = [called |-> TRUE, metrics |-> get_sector_metrics(sm_df)]
    /\ UNCHANGED <<sm_df, clean_vars, load_vars, ml_vars, loader_vars, app_vars>>

NextMetrics == CallGetSectorMetrics

SpecMetrics == InitMetrics /\ [][NextMetrics]_vars

\* ---- the success model: trained once from one file, then asked repeatedly
TrainColumns == {"status", "category_list"} \cup FeatureColumns

TrainRows ==
    [ status            : {S_acquired, S_operating},
      funding_total_usd : {<<"1", ",", "0", "0", "0">>},
      funding_rounds    : {<<"2">>},
      country_code      : {S_CAN, S_Other},
      category_list     : {S_BioMed, S_Other} ]

TrainFiles ==
    { [readable |-> TRUE, cols |-> TrainColumns, rows |-> rs] :
        rs \in UNION { [1..n -> TrainRows] : n \in 0..MaxTrainRows } }

PredictArgs ==
    [ funding : {1000000}, rounds : {2}, country : {S_CAN, S_USA},
      category : {S_Bio, S_Soft} ]

InitModel ==
    /\ tr_file \in TrainFiles
    /\ tr_out = NotTrained
    /\ pr_last = [args |-> <<>>, out |-> NotPredicted]
    /\ pr_probe = NoProbe
    /\ CleanIdle /\ LoadIdle /\ MetricsIdle /\ LoadersIdle /\ AppIdle

\* model, encoders = train_success_model(), once (get_model is cached)
Train ==
    /\ tr_out.kind = "none"
    /\ \E fit \in 0..MaxFit : tr_out' = train_success_model(tr_file, fit)
    /\ UNCHANGED <<tr_file, pr_last, pr_probe,
                   clean_vars, load_vars, metrics_vars, loader_vars, app_vars>>

\* The variant a plausible slip produces: the fallback adds the unseen
\* country to the encoder instead of leaving the encoder alone.
PredictSuccessRefits ==
    /\ tr_out.kind = "return" /\ ~tr_out.model.none
    /\ \E a \in PredictArgs :
         LET call == [args |-> a,
                      out  |-> predict_success(tr_out.model, tr_out.encoders,
                                               a.funding, a.rounds, a.country, a.category)]
         IN  /\ pr_last' = call
             /\ \/ pr_probe' = [args |-> a, out |-> call.out, other |-> FALSE]
                \/ /\ pr_probe # NoProbe
                   /\ pr_probe' = [pr_probe EXCEPT !.other = @ \/ a # pr_probe.args]
             /\ tr_out' = [tr_out EXCEPT !.encoders.country =
                             Sorted(Range(@) \cup {a.country})]
    /\ UNCHANGED <<tr_file, clean_vars, load_vars, metrics_vars, loader_vars, app_vars>>

\* a call of predict_success on the trained model; pr_probe keeps one of the
\* calls made so far, to compare later calls with, and whether a call with
\* other arguments was made since
PredictSuccess ==
    /\ tr_out.kind = "return" /\ ~tr_out.model.none
    /\ \E a \in PredictArgs :
         LET call == [args |-> a,
                      out  |-> predict_success(tr_out.model, tr_out.encoders,
                                               a.funding, a.rounds, a.country, a.category)]
         IN  /\ pr_last' = call
             /\ \/ pr_probe' = [args |-> a, out |-> call.out, other |-> FALSE]
                \/ /\ pr_probe # NoProbe
                   /\ pr_probe' = [pr_probe EXCEPT !.other = @ \/ a # pr_probe.args]
    /\ UNCHANGED <<tr_file, tr_out,
                   clean_vars, load_vars, metrics_vars, loader_vars, app_vars>>

NextModel == Train \/ PredictSuccess

\* ---- training alone, on files that differ in their category_list column
CategoryRows ==
    [ status            : {S_acquired, S_operating, S_pending},
      funding_total_usd : {<<"1", ",", "0", "0", "0">>},
      funding_rounds    : {<<"2">>},
      country_code      : {S_USA},
      category_list     : {S_BioMed, S_Soft, S_Other, MissingCell} ]

CategoryFiles ==
    { [readable |-> TRUE, cols |-> TrainColumns, rows |-> rs] :
        rs \in UNION { [1..n -> CategoryRows] : n \in 0..MaxTrainRows } }

InitCategory ==
    /\ tr_file \in CategoryFiles
    /\ tr_out = NotTrained
    /\ pr_last = [args |-> <<>>, out |-> NotPredicted]
    /\ pr_probe = NoProbe
    /\ CleanIdle /\ LoadIdle /\ MetricsIdle /\ LoadersIdle /\ AppIdle

NextCategory == Train

SpecCategory == InitCategory /\ [][NextCategory]_vars

SpecModel == InitModel /\ [][NextModel]_vars

\* ---- the optional loaders: one set of files, each loader called once
UnicornColumns == {"Company", "Last Valuation (Billion $)", "Date Joined", "Investors"}

UnicornRows ==
    [ Company : {"Stripe", "Canva"}, DateJoined : {D20120101, <<"n", "/", "a">>},
      Valuation : {<<"9", "5">>} ]

UnicornFiles ==
    {NoFile, [kind |-> "malformed", cols |-> {}, rows |-> <<>>]}
    \cup { [kind |-> "utf8", cols |-> cs, rows |-> rs] :
             cs \in { UnicornColumns, UnicornColumns \ {"Company"},
                      UnicornColumns \ {"Date Joined"}, {"Company", "Date Joined"} },
             rs \in UNION { [1..n -> UnicornRows] : n \in 0..MaxOptionalRows } }

LegacyRows == [Company : {"Stripe"}, YearFounded : {<<"2", "0", "1", "0">>, MissingCell}]

LegacyFiles ==
    {NoFile}
    \cup { [kind |-> "utf8", cols |-> cs, rows |-> rs] :
             cs \in {{"Company", "Year Founded"}, {"Company"}},
             rs \in UNION { [1..n -> LegacyRows] : n \in 0..MaxOptionalRows } }

SaasColumns == MoneyColumns \cup {"Employees"}

SaasRows ==
    [ TotalFunding : {Str50M}, ARR : {Str50M, MissingCell}, Valuation : {Str100B},
      Employees : {<<"1", ",", "2", "0", "0">>, <<"1", "2", ".", "5">>, <<"N", "/", "A">>,
                   <<"1", "2", ".", "5", ".", "3">>, MissingCell} ]

SaasFiles ==
    {NoFile, [kind |-> "malformed", cols |-> {}, rows |-> <<>>]}
    \cup { [kind |-> "utf8", cols |-> cs, rows |-> rs] :
             cs \in {SaasColumns, SaasColumns \ {"ARR"}},
             rs \in UNION { [1..n -> SaasRows] : n \in 0..MaxOptionalRows } }

InvestorFiles ==
    {NoFile, [kind |-> "malformed", cols |-> {}, rows |-> <<>>]}
    \cup { [kind |-> k, cols |-> {"Name", "Sectors"}, rows |-> rs] :
             k \in {"utf8", "latin1"},
             rs \in UNION { [1..n -> [Name : {"Ann"}, Sectors : {"AI"}]] :
                              n \in 0..MaxOptionalRows } }

OptionalFileSets ==
    { [NoFiles EXCEPT !.unicorn = u, !.legacy = l] : u \in UnicornFiles, l \in LegacyFiles }
    \cup { [NoFiles EXCEPT !.saas = s] : s \in SaasFiles }
    \cup { [NoFiles EXCEPT !.investor = f] : f \in InvestorFiles }

InitLoaders ==
    /\ lo_files \in OptionalFileSets
    /\ lo_out = NoTables
    /\ CleanIdle /\ LoadIdle /\ MetricsIdle /\ ModelIdle /\ AppIdle

CallLoadUnicornData ==
    /\ lo_out.unicorn.kind = "none"
    /\ lo_out' = [lo_out EXCEPT !.unicorn = load_unicorn_data(lo_files.unicorn, lo_files.legacy)]
    /\ UNCHANGED <<lo_files, clean_vars, load_vars, metrics_vars, ml_vars, app_vars>>

CallLoadSaasData ==
    /\ lo_out.saas.kind = "none"
    /\ lo_out' = [lo_out EXCEPT !.saas = load_saas_data(lo_files.saas)]
    /\ UNCHANGED <<lo_files, clean_vars, load_vars, metrics_vars, ml_vars, app_vars>>

CallLoadInvestorData ==
    /\ lo_out.investor.kind = "none"
    /\ lo_out' = [lo_out EXCEPT !.investor = load_investor_data(lo_files.investor)]
    /\ UNCHANGED <<lo_files, clean_vars, load_vars, metrics_vars, ml_vars, app_vars>>

NextLoaders == CallLoadUnicornData \/ CallLoadSaasData \/ CallLoadInvestorData

SpecLoaders == InitLoaders /\ [][NextLoaders]_vars

\* ---- app.py: the script, run from the top at each interaction
AcquiredRow ==
    [ status |-> S_acquired, founded_at |-> D20100101, last_funding_at |-> D20120101,
      funding_total_usd |-> MissingCell ]

AppInvestmentFiles ==
    { [readable |-> FALSE, cols |-> {}, rows |-> <<>>],
      [readable |-> TRUE, cols |-> LoadColumns, rows |-> <<>>],
      [readable |-> TRUE, cols |-> LoadColumns, rows |-> <<AcquiredRow>>],
      [readable |-> TRUE, cols |-> LoadColumns \ {"status"},
       rows |-> <<WithoutColumn(AcquiredRow, "status")>>] }

AppOptionalFiles ==
    { NoFiles,
      [ unicorn  |-> [kind |-> "utf8", cols |-> UnicornColumns,
                      rows |-> <<[Company |-> "Stripe", DateJoined |-> D20120101,
                                  Valuation |-> <<"9", "5">>]>>],
        legacy   |-> [kind |-> "utf8", cols |-> {"Company", "Year Founded"},
                      rows |-> <<[Company |-> "Stripe",
                                  YearFounded |-> <<"2", "0", "1", "0">>]>>],
        saas     |-> NoFile,
        investor |-> [kind |-> "latin1", cols |-> {"Name", "Sectors"},
                      rows |-> <<[Name |-> "Ann", Sectors |-> "AI"]>>] ],
      [ unicorn  |-> [kind |-> "utf8", cols |-> UnicornColumns \ {"Company"},
                      rows |-> <<[Company |-> "Stripe", DateJoined |-> D20120101,
                                  Valuation |-> <<"9", "5">>]>>],
        legacy   |-> [kind |-> "utf8", cols |-> {"Company", "Year Founded"},
                      rows |-> <<[Company |-> "Stripe",
                                  YearFounded |-> <<"2", "0", "1", "0">>]>>],
        saas     |-> NoFile,
        investor |-> NoFile ] }

TrainRowOf(status, country) ==
    [ status |-> status, funding_total_usd |-> <<"1", ",", "0", "0", "0">>,
      funding_rounds |-> <<"2">>, country_code |-> country, category_list |-> S_BioMed ]

AppTrainFiles ==
    { [readable |-> FALSE, cols |-> {}, rows |-> <<>>],
      [readable |-> TRUE, cols |-> TrainColumns \ {"status"},
       rows |-> <<TrainRowOf(MissingCell, S_USA)>>],
      [readable |-> TRUE, cols |-> TrainColumns, rows |-> <<>>],
      [readable |-> TRUE, cols |-> TrainColumns,
       rows |-> <<TrainRowOf(S_operating, S_USA)>>],
      [readable |-> TRUE, cols |-> TrainColumns,
       rows |-> <<TrainRowOf(S_acquired, S_USA), TrainRowOf(S_operating, S_CAN)>>] }

InitApp ==
    /\ ld_file \in AppInvestmentFiles
    /\ lo_files \in AppOptionalFiles
    /\ tr_file \in AppTrainFiles
    /\ ld_out = NotLoaded
    /\ lo_out = NoTables
    /\ tr_out = NotTrained
    /\ pr_last = [args |-> <<>>, out |-> NotPredicted]
    /\ pr_probe = NoProbe
    /\ app_pc = "get_data"
    /\ app_run = {}
    /\ CleanIdle /\ MetricsIdle

\* get_data() returns from the cache of st.cache_data once it has returned
DataCached == ld_out.kind = "return"

\* lines 32-40, the cached call: nothing is loaded again
AppGetDataCached ==
    /\ app_pc = "get_data"
    /\ DataCached
    /\ app_pc' = "get_model"
    /\ app_run' = app_run \cup {"get_data"}
    /\ UNCHANGED <<clean_vars, load_vars, metrics_vars, ml_vars, loader_vars>>

\* lines 32-40: get_data() calls the four loaders in turn; an exception of
\* any of them leaves the cache empty, is caught at the top level and ends
\* the run with st.error and st.stop
AppGetData ==
    /\ app_pc = "get_data"
    /\ ~DataCached
    /\ LET r1 == load_data(ld_file)
           r2 == load_unicorn_data(lo_files.unicorn, lo_files.legacy)
           r3 == load_saas_data(lo_files.saas)
           r4 == load_investor_data(lo_files.investor)
       IN  IF r1.kind = "raise"
           THEN /\ ld_out' = r1
                /\ lo_out' = lo_out
                /\ app_pc' = "stopped"
                /\ app_run' = app_run \cup {"get_data", "st.error", "st.stop"}
           ELSE IF r2.kind = "raise"
           THEN /\ ld_out' = ld_out
                /\ lo_out' = [lo_out EXCEPT !.unicorn = r2]
                /\ app_pc' = "stopped"
                /\ app_run' = app_run \cup {"get_data", "st.error", "st.stop"}
           ELSE IF r3.kind = "raise"
           THEN /\ ld_out' = ld_out
                /\ lo_out' = [lo_out EXCEPT !.saas = r3]
                /\ app_pc' = "stopped"
                /\ app_run' = app_run \cup {"get_data", "st.error", "st.stop"}
           ELSE IF r4.kind = "raise"
           THEN /\ ld_out' = ld_out
                /\ lo_out' = [lo_out EXCEPT !.investor = r4]
                /\ app_pc' = "stopped"
                /\ app_run' = app_run \cup {"get_data", "st.error", "st.stop"}
           ELSE /\ ld_out' = r1
                /\ lo_out' = [unicorn |-> r2, saas |-> r3, investor |-> r4]
                /\ app_pc' = "get_model"
                /\ app_run' = app_run \cup {"get_data"}
    /\ UNCHANGED <<ld_file, lo_files, clean_vars, metrics_vars, ml_vars>>

\* lines 43-47, the cached call
AppGetModelCached ==
    /\ app_pc = "get_model"
    /\ tr_out.kind = "return"
    /\ app_pc' = "sidebar"
    /\ app_run' = app_run \cup {"get_model"}
    /\ UNCHANGED <<clean_vars, load_vars, metrics_vars, ml_vars, loader_vars>>

\* lines 43-47: model, encoders = get_model(); an exception of
\* train_success_model is caught nowhere and ends the run
AppGetModel ==
    /\ app_pc = "get_model"
    /\ tr_out.kind # "return"
    /\ \E fit \in 0..MaxFit :
         /\ tr_out' = train_success_model(tr_file, fit)
         /\ app_pc' = IF tr_out'.kind = "raise" THEN "crashed" ELSE "sidebar"
    /\ app_run' = app_run \cup {"get_model"}
    /\ UNCHANGED <<tr_file, pr_last, pr_probe,
                   clean_vars, load_vars, metrics_vars, loader_vars>>

\* lines 49-76, the sidebar and the filter, and lines 78-307, tabs 1 to 7:
\* they read columns of the tables the model does not carry (country_code,
\* founded_year, Name, ...), where a lookup or int(NaN) can raise; the step
\* either completes or ends the run with the exception
AppSidebarAndFilter ==
    /\ app_pc = "sidebar"
    /\ app_run' = app_run \cup {"filter"}
    /\ \/ app_pc' = "tabs"
       \/ app_pc' = "crashed"
    /\ UNCHANGED <<clean_vars, load_vars, metrics_vars, ml_vars, loader_vars>>

AppTabs1To7 ==
    /\ app_pc = "tabs"
    /\ app_run' = app_run \cup {"tabs"}
    /\ \/ app_pc' = "tab8"
       \/ app_pc' = "crashed"
    /\ UNCHANGED <<clean_vars, load_vars, metrics_vars, ml_vars, loader_vars>>

\* lines 314-315: no model, the tab shows the error and nothing else
AppTab8NoModel ==
    /\ app_pc = "tab8"
    /\ tr_out.model.none
    /\ app_pc' = "done"
    /\ app_run' = app_run \cup {"tab8", "st.error"}
    /\ UNCHANGED <<clean_vars, load_vars, metrics_vars, ml_vars, loader_vars>>

\* lines 316-326: the inputs are shown, the button is not pressed
AppTab8Idle ==
    /\ app_pc = "tab8"
    /\ ~tr_out.model.none
    /\ app_pc' = "done"
    /\ app_run' = app_run \cup {"tab8"}
    /\ UNCHANGED <<clean_vars, load_vars, metrics_vars, ml_vars, loader_vars>>

\* lines 316-352: the button is pressed; the category and the country come
\* from the select boxes over the encoders' classes
AppTab8Predict ==
    /\ app_pc = "tab8"
    /\ ~tr_out.model.none
    /\ \E p_cat \in Range(tr_out.encoders.category),
          p_country \in Range(tr_out.encoders.country),
          p_funding \in {0, 1000000}, p_rounds \in {1, 2} :
         /\ pr_last' = [args |-> [funding |-> p_funding, rounds |-> p_rounds,
                                  country |-> p_country, category |-> p_cat],
                        out  |-> predict_success(tr_out.model, tr_out.encoders,
                                                 p_funding, p_rounds, p_country, p_cat)]
         /\ app_pc' = IF pr_last'.out.kind = "raise" THEN "crashed" ELSE "done"
    /\ app_run' = app_run \cup {"tab8", "predict_success"}
    /\ UNCHANGED <<tr_file, tr_out, pr_probe,
                   clean_vars, load_vars, metrics_vars, loader_vars>>

\* an interaction runs the script again from the top
AppRerun ==
    /\ app_pc \in {"done", "stopped", "crashed"}
    /\ app_pc' = "get_data"
    /\ app_run' = {}
    /\ UNCHANGED <<clean_vars, load_vars, metrics_vars, ml_vars, loader_vars>>

NextApp ==
    \/ AppGetDataCached \/ AppGetData
    \/ AppGetModelCached \/ AppGetModel
    \/ AppSidebarAndFilter \/ AppTabs1To7
    \/ AppTab8NoModel \/ AppTab8Idle \/ AppTab8Predict
    \/ AppRerun

SpecApp == InitApp /\ [][NextApp]_vars

(***************************************************************************)
(* Claims about the cleaners                                               *)
(***************************************************************************)
HasDigit(s) == \E i \in 1..Len(s) : s[i] \in DigitChars

\* a string with nothing numeric in it: not one digit
NonNumericGarbage(s) == ~HasDigit(s)

\* C1: neither cleaner raises on a string; both return 0.0 on non-numeric
\* garbage; clean_currency returns 0.0 when the argument, stripped and with
\* its commas removed, is empty or a single dash.
C1_CleanersDefaultToZero ==
    cl_fn # "none" =>
        /\ cl_out.kind = "return"
        /\ NonNumericGarbage(cl_in) => cl_out.v = Zero
        /\ (/\ cl_fn = "clean_currency"
            /\ RemoveAll(Strip(cl_in), ",") \in {<<>>, <<"-">>}) => cl_out.v = Zero

\* the unit letter found first when the letters are looked for in `order`
FirstUnit(s, order) ==
    IF \E i \in 1..Len(order) : order[i] \in Range(s)
    THEN order[CHOOSE i \in 1..Len(order) :
                 /\ order[i] \in Range(s)
                 /\ \A j \in 1..(i - 1) : order[j] \notin Range(s)]
    ELSE "none"

\* the decimal exponent of a unit's scale: T = 1e12, B = 1e9, M = 1e6, K = 1e3
ScalePow(u) ==
    CASE u = "T" -> 12 [] u = "B" -> 9 [] u = "M" -> 6 [] u = "K" -> 3
      [] OTHER -> 0

\* the abbreviated-currency value as the claim describes it, the unit letters
\* looked for in `order`
AbbreviatedValue(x, order) ==
    LET s    == RemoveAll(RemoveAll(Strip(x), "$"), ",")
        u    == FirstUnit(s, order)
        rest == IF u = "none" THEN s ELSE RemoveAll(s, u)
        r    == float(rest)
    IN  IF r.exc = "none" THEN MulPow10(r.v, ScalePow(u)) ELSE Zero

ExamplesHold ==
    /\ cl_in = Str100B => cl_out.v = Num(1, <<"1">>, 11)
    /\ cl_in = Str50M => cl_out.v = Num(1, <<"5">>, 7)
    /\ cl_in = Str180000 => cl_out.v = Num(1, <<"1", "8">>, 4)

ExitWithValidDuration(row) ==
    /\ row.status \in {<<"a", "c", "q", "u", "i", "r", "e", "d">>, <<"i", "p", "o">>}
    /\ ~row.founded_at.nat
    /\ ~row.last_funding_at.nat
    /\ 2 * (row.last_funding_at.ord - row.founded_at.ord) >= 365

\* C3: in a table load_data returns, years_to_exit is defined exactly on the
\* rows whose normalised status is acquired or ipo, whose founded_at and
\* last_funding_at are known and whose (last_funding_at - founded_at) days /
\* 365 is at least 0.5, and there it is that quotient; acquired, 2010-01-01 to
\* 2010-04-01 is undefined and 2010-01-01 to 2012-01-01 is 730 / 365 = 2.0.
C3_YearsToExitDefinedIff ==
    ld_out.kind = "return" =>
        \A i \in 1..Len(ld_out.rows) :
            LET row == ld_out.rows[i]
                raw == ld_file.rows[i]
            IN  /\ ~row.years_to_exit.nan <=> ExitWithValidDuration(row)
                /\ ~row.years_to_exit.nan =>
                       row.years_to_exit.days = row.last_funding_at.ord - row.founded_at.ord
                /\ (/\ raw.status = <<"a", "c", "q", "u", "i", "r", "e", "d">>
                    /\ raw.founded_at = D20100101
                    /\ raw.last_funding_at = D20100401) => row.years_to_exit.nan
                /\ (/\ raw.status = <<"a", "c", "q", "u", "i", "r", "e", "d">>
                    /\ raw.founded_at = D20100101
                    /\ raw.last_funding_at = D20120101) => row.years_to_exit = Years(730)

\* a returned table with an exit below the floor next to one above it
C3_Witness ==
    /\ ld_out.kind = "return"
    /\ Len(ld_out.rows) = 2
    /\ ld_file.rows[1].last_funding_at = D20100401
    /\ ld_out.rows[1].status = <<"a", "c", "q", "u", "i", "r", "e", "d">>
    /\ ~ld_out.rows[1].founded_at.nat
    /\ ld_out.rows[1].years_to_exit.nan
    /\ ld_out.rows[2].status = <<"i", "p", "o">>
    /\ ld_out.rows[2].years_to_exit = Years(730)

(***************************************************************************)
(* Claims about get_sector_metrics                                         *)
(***************************************************************************)
\* C4: the result holds no sector with deal_count <= 5, and every sector in
\* it has success_rate = exit_count / deal_count * 100 within [0, 100].
C4_SuccessRateWithinRange ==
    sm_out.called =>
        \A m \in DOMAIN sm_out.metrics :
            LET r == sm_out.metrics[m]
            IN  /\ r.deal_count > 5
                /\ r.success_rate = Ratio(r.exit_count * 100, r.deal_count)
                /\ 0 <= r.success_rate.num
                /\ r.success_rate.num <= 100 * r.success_rate.den

(***************************************************************************)
(* Claims about the success model                                          *)
(***************************************************************************)
\* the three-step fallback: the value's own code, else the code of "Other",
\* else 0
FallbackCode(classes, v) ==
    IF \E i \in 1..Len(classes) : classes[i] = v
    THEN (CHOOSE i \in 1..Len(classes) : classes[i] = v) - 1
    ELSE IF \E i \in 1..Len(classes) : classes[i] = S_Other
    THEN (CHOOSE i \in 1..Len(classes) : classes[i] = S_Other) - 1
    ELSE 0

Predicted == pr_last.out.kind # "none"

\* C5: in predict_success the country and the category are both encoded by
\* the three-step fallback (own code, else the code of "Other", else 0), and
\* the code lies within 0..V-1 of the fitted vocabulary.
C5_SameFallbackForBothFields ==
    Predicted =>
        /\ pr_last.out.c_enc = FallbackCode(tr_out.encoders.country, pr_last.args.country)
        /\ pr_last.out.cat_enc = FallbackCode(tr_out.encoders.category, pr_last.args.category)
        /\ pr_last.out.c_enc \in 0..(Len(tr_out.encoders.country) - 1)
        /\ pr_last.out.cat_enc \in 0..(Len(tr_out.encoders.category) - 1)

\* C6: on every model train_success_model returns, predict_success returns a
\* probability within [0, 1] and does not raise, also when the training labels
\* were all of one class.
C6_ProbabilityReturned ==
    Predicted =>
        /\ pr_last.out.kind = "return"
        /\ 0 <= pr_last.out.p.num
        /\ pr_last.out.p.num <= pr_last.out.p.den

Trained == tr_out.kind = "return" /\ ~tr_out.model.none

\* C7: once trained, the model and both encoders never change again, whatever
\* calls of predict_success are made, and a call with the arguments of an
\* earlier call has the outcome of that call, whatever was called in between.
C7_TrainedForGoodAndDeterministic ==
    /\ [][Trained => tr_out' = tr_out]_vars
    /\ [](pr_probe.args = pr_last.args => pr_probe.out = pr_last.out)

\* a probability returned again for the same arguments after a call with others
C7_Witness ==
    /\ Trained
    /\ pr_probe.other
    /\ pr_probe.args = pr_last.args
    /\ pr_last.out.kind = "return"

(***************************************************************************)
(* Claims about the optional loaders                                       *)
(***************************************************************************)
Unreadable(file) == file.kind \in {"missing", "malformed"}

\* a unicorn file without 'Company' or 'Date Joined' next to a usable legacy file
UnicornWrongFormat ==
    /\ ~Unreadable(lo_files.unicorn)
    /\ ~({"Company", "Date Joined"} \subseteq lo_files.unicorn.cols)
    /\ ~Unreadable(lo_files.legacy)
    /\ lo_files.legacy.rows # <<>>
    /\ {"Company", "Year Founded"} \subseteq lo_files.legacy.cols

\* C9: load_unicorn_data, load_saas_data and load_investor_data never raise,
\* and return the empty table when the file is missing, cannot be read or
\* (the unicorn file) lacks 'Company' or 'Date Joined'.
C9_OptionalLoadersNeverRaise ==
    /\ lo_out.unicorn.kind # "none" =>
          /\ lo_out.unicorn.kind = "return"
          /\ (Unreadable(lo_files.unicorn) \/ UnicornWrongFormat) =>
                 lo_out.unicorn.table = [cols |-> {}, rows |-> <<>>]
    /\ lo_out.saas.kind # "none" =>
          /\ lo_out.saas.kind = "return"
          /\ Unreadable(lo_files.saas) => lo_out.saas.table = [cols |-> {}, rows |-> <<>>]
    /\ lo_out.investor.kind # "none" =>
          /\ lo_out.investor.kind = "return"
          /\ Unreadable(lo_files.investor) =>
                 lo_out.investor.table = [cols |-> {}, rows |-> <<>>]

\* a decimal literal, with or without a sign before it
IsDecimalOrSigned(t) ==
    IsDecimal(IF t # <<>> /\ Head(t) \in {"-", "+"} THEN Tail(t) ELSE t)

\* the funding field of a row of the file names no number: it is missing, or
\* it is a text that is not a number once trimmed and rid of its commas
FundingUnparseable(c) ==
    \/ c = MissingCell
    \/ ~IsDecimalOrSigned(RemoveAll(Strip(c), ","))

\* C12: in every table load_data returns, each record's funding_total_usd is
\* a number that is not negative (never NaN), and it is exactly 0 for every
\* record whose funding field in the file was missing or unparseable.
C12_FundingNonNegativeZeroWhenMissing ==
    (ld_out.kind = "return" /\ "funding_total_usd" \in ld_file.cols) =>
        \A i \in 1..Len(ld_out.rows) :
            /\ ld_out.rows[i].funding_total_usd.k = "num"
            /\ ld_out.rows[i].funding_total_usd.s = 1
            /\ FundingUnparseable(ld_file.rows[i].funding_total_usd) =>
                   ld_out.rows[i].funding_total_usd = Zero

\* the number a text denotes when, with its commas removed, it is a
\* non-negative integer or decimal, and 0 for any other text or a missing value
EmployeesDenoted(c) ==
    LET t == IF c = MissingCell THEN <<>> ELSE RemoveAll(c, ",")
    IN  IF IsDecimal(t) THEN Num(1, RemoveAll(t, "."), 0 - FracLen(t)) ELSE Zero

\* C11: in the table load_saas_data returns, each record's Employees is the
\* numeric value of the Employees text with commas removed when that text is
\* a non-negative integer or decimal ("1,200" gives 1200, "12.5" gives 12.5),
\* and 0 for every other text and for a missing value.
C11_EmployeesIsDenotedNumber ==
    (lo_out.saas.kind = "return" /\ ~Unreadable(lo_files.saas)
        /\ "Employees" \in lo_files.saas.cols) =>
        \A i \in 1..Len(lo_files.saas.rows) :
            lo_out.saas.table.rows[i].Employees
                = EmployeesDenoted(lo_files.saas.rows[i].Employees)

\* C13: during training, each row's primary category is the first
\* pipe-delimited token of its category_list when that field is a string, and
\* the literal "Other" when the field is missing; a missing category_list
\* never gives another token, such as the text of a null marker.
C13_PrimaryCategoryOtherWhenMissing ==
    (tr_out.kind = "return" /\ ~tr_out.model.none) =>
        LET df == StatusRows(tr_file.rows)
        IN  /\ Len(tr_out.primary) = Len(df)
            /\ \A j \in 1..Len(df) :
                   tr_out.primary[j] = IF df[j].category_list = MissingCell
                                       THEN S_Other
                                       ELSE FirstToken(df[j].category_list)

(***************************************************************************)
(* Claims about the application                                            *)
(***************************************************************************)
\* the training file cannot be read, or lacks a column training needs
TrainingFileFails ==
    \/ ~tr_file.readable
    \/ ~({"status", "funding_total_usd", "funding_rounds", "country_code",
          "category_list"} \subseteq tr_file.cols)

\* C8: when the training file cannot be read or parsed (absent, unreadable,
\* expected columns missing), train_success_model returns (None, None) and
\* does not raise; model and encoders are absent together; and while the
\* model is absent predict_success is never called.
C8_AbsentModelNeverPredicts ==
    /\ (TrainingFileFails /\ tr_out.kind # "none") =>
          /\ tr_out.kind = "return"
          /\ tr_out.model.none /\ tr_out.encoders.none
    /\ tr_out.model.none <=> tr_out.encoders.none
    /\ tr_out.model.none =>
          /\ pr_last.out.kind = "none"
          /\ "predict_success" \notin app_run

\* C10: when the primary investments file cannot be read, load_data returns
\* no table but raises; the application then shows the error and stops, and
\* no later step runs: no training, no filter, no tab, no prediction.
C10_FailedPrimaryLoadHalts ==
    ~ld_file.readable =>
        /\ ld_out.kind \in {"none", "raise"}
        /\ app_pc \in {"get_data", "stopped"}
        /\ app_pc = "stopped" => {"st.error", "st.stop"} \subseteq app_run
        /\ app_run \subseteq {"get_data", "st.error", "st.stop"}
        /\ tr_out.kind = "none"
        /\ pr_last.out.kind = "none"

\* the run stopped on the failed load of the primary file
C10_Witness ==
    /\ ~ld_file.readable
    /\ ld_out.kind = "raise"
    /\ app_pc = "stopped"
    /\ "st.error" \in app_run

====
